---- MODULE Spec2Model ----
(***************************************************************************)
(* A model of web/serve.py: a static-file HTTP server built on Python's    *)
(* http.server.HTTPServer / SimpleHTTPRequestHandler that appends the two  *)
(* cross-origin isolation headers in end_headers() and overrides           *)
(* guess_type() for ".wasm" and ".mjs".                                    *)
(*                                                                         *)
(* serve.py is 49 lines; what it inherits and calls (request parsing,      *)
(* path translation, the header buffer, the serve loop) is CPython 3.11's  *)
(* http/server.py and socketserver.py, modelled here from that library's   *)
(* source at the place serve.py inherits or calls it.                      *)
(*                                                                         *)
(* Text is modelled as a sequence of chunks: "." and "/" are the one-      *)
(* character chunks, every other chunk is a run of characters holding      *)
(* neither.  A file-system path is a sequence of names, a name a sequence  *)
(* of chunks.                                                              *)
(***************************************************************************)
EXTENDS Integers, Sequences, FiniteSets, TLC

VARIABLES
    argv,             \* sys.argv[1:], each argument a sequence of characters
    pc,               \* the main program's position (a line of serve.py)
    port,             \* serve.py's variable port (line 40)
    bind,             \* serve.py's variable bind (line 41)
    sock,             \* the server's listening socket
    stdout,           \* the lines printed (lines 44 and 48)
    exitcode,         \* the process's exit code, Running while it runs
    startfail,        \* the startup raised (line 40 or line 43)
    interrupts,       \* SIGINTs delivered so far
    caughtServing,    \* an interrupt arrived inside serve_forever's loop
    shutdown_request, \* BaseServer.__shutdown_request
    is_shut_down,     \* BaseServer.__is_shut_down (a threading.Event)
    pending,          \* connections waiting in the listen backlog
    accepted,         \* connections accepted so far
    handlers,         \* the request handler instances alive
    failed,           \* some earlier request failed
    fs,               \* the content of each regular file
    writes,           \* file writes done by the environment
    mjsDefault,       \* the platform's mimetypes entry for ".mjs"
    gpath,            \* guess_type's argument (the pure-function check)
    gtype             \* guess_type's result, NoType before the call

vars == <<argv, pc, port, bind, sock, stdout, exitcode, startfail, interrupts,
          caughtServing, shutdown_request, is_shut_down, pending, accepted,
          handlers, failed, fs, writes, mjsDefault, gpath, gtype>>

mainVars == <<argv, pc, port, bind, sock, stdout, exitcode, startfail,
              interrupts, caughtServing, shutdown_request, is_shut_down>>

(***************************************************************************)
(* Bounds of the model.                                                    *)
(***************************************************************************)
MaxChunks == 3
MaxConns == 2
MaxPending == 1
MaxWrites == 1
MaxLen == 1
MaxInterrupts == 2

(***************************************************************************)
(* Text helpers.                                                           *)
(***************************************************************************)
RECURSIVE SeqsUpTo(_, _)
SeqsUpTo(S, n) ==
    IF n = 0 THEN {<<>>}
    ELSE LET shorter == SeqsUpTo(S, n - 1)
         IN  shorter \cup {Append(s, x) : s \in shorter, x \in S}

\* str.endswith
EndsWith(s, suffix) ==
    /\ Len(s) >= Len(suffix)
    /\ SubSeq(s, Len(s) - Len(suffix) + 1, Len(s)) = suffix

\* str.rfind of a one-chunk needle, 1-based, 0 when absent
RFind(s, c) ==
    LET hits == {i \in 1..Len(s) : s[i] = c}
    IN  IF hits = {} THEN 0 ELSE CHOOSE i \in hits : \A j \in hits : j <= i

\* str.lower on one chunk
LowerChunk(c) == IF c = "WASM" THEN "wasm" ELSE IF c = "Z" THEN "z" ELSE c

Lower(s) == [i \in 1..Len(s) |-> LowerChunk(s[i])]

HasPrefix(s, prefix) ==
    /\ Len(s) >= Len(prefix)
    /\ SubSeq(s, 1, Len(prefix)) = prefix

(***************************************************************************)
(* guess_type.                                                             *)
(***************************************************************************)
NoType == "none"
OctetStream == "application/octet-stream"

\* posixpath.splitext(path)[1]: the extension starts at the last dot of the
\* last component, unless only dots precede it in that component.
SplitExt(p) ==
    LET sepIndex == RFind(p, "/")
        dotIndex == RFind(p, ".")
    IN  IF /\ dotIndex > sepIndex
           /\ \E i \in (sepIndex + 1)..(dotIndex - 1) : p[i] # "."
        THEN SubSeq(p, dotIndex, Len(p))
        ELSE <<>>

\* SimpleHTTPRequestHandler.extensions_map
extensions_map ==
    [e \in {<<".", "gz">>, <<".", "Z">>, <<".", "bz2">>, <<".", "xz">>} |->
        CASE e = <<".", "gz">> -> "application/gzip"
          [] e = <<".", "Z">> -> OctetStream
          [] e = <<".", "bz2">> -> "application/x-bzip2"
          [] e = <<".", "xz">> -> "application/x-xz"]

\* mimetypes.guess_type(path)[0], NoType for None: the types the platform's
\* table holds for the extensions of the model, matched exactly and then in
\* lower case.
MimetypesGuess(p, mjs) ==
    LET ext == SplitExt(p)
        types(e) == CASE e = <<".", "html">> -> "text/html"
                      [] e = <<".", "wasm">> -> "application/wasm"
                      [] e = <<".", "mjs">> -> mjs
                      [] OTHER -> NoType
    IN  IF types(ext) # NoType THEN types(ext) ELSE types(Lower(ext))

\* SimpleHTTPRequestHandler.guess_type, which line 36 falls back to
DefaultGuessType(p, mjs) ==
    LET ext == SplitExt(p)
    IN  IF ext \in DOMAIN extensions_map THEN extensions_map[ext]
        ELSE IF Lower(ext) \in DOMAIN extensions_map
             THEN extensions_map[Lower(ext)]
        ELSE IF MimetypesGuess(p, mjs) # NoType THEN MimetypesGuess(p, mjs)
        ELSE OctetStream

\* A guess_type whose ".wasm" test is a substring test
guess_type_contains(p, mjs) ==
    IF \E i \in 1..Len(p) : EndsWith(SubSeq(p, 1, i), <<".", "wasm">>)
    THEN "application/wasm"
    ELSE IF EndsWith(p, <<".", "mjs">>) THEN "application/javascript"
    ELSE DefaultGuessType(p, mjs)

\* COOPCOEPHandler.guess_type
guess_type(p, mjs) ==
    IF EndsWith(p, <<".", "wasm">>) THEN "application/wasm"
    ELSE IF EndsWith(p, <<".", "mjs">>) THEN "application/javascript"
    ELSE DefaultGuessType(p, mjs)

GuessChunks == {"zz", ".", "/", "wasm", "mjs", "html", "WASM", "gz"}
GuessInputs == SeqsUpTo(GuessChunks, MaxChunks) \ {<<>>}
MjsDefaults == {"application/javascript", "text/javascript"}

(***************************************************************************)
(* The file system.  The document root is the working directory, /r.       *)
(***************************************************************************)
Dot == <<".">>
DotDot == <<".", ".">>
n_r == <<"r">>
n_a_wasm == <<"a", ".", "wasm">>
n_c_html == <<"c", ".", "html">>
n_index_html == <<"index", ".", "html">>
n_index_htm == <<"index", ".", "htm">>
n_d == <<"d">>
n_e == <<"e">>
n_u == <<"u">>
n_secret == <<"secret">>
n_passwd == <<"passwd">>
n_nope == <<"nope">>

\* os.getcwd() at line 43's handler construction: the document root
directory == <<n_r>>

Dirs == {<<>>, directory, directory \o <<n_d>>, directory \o <<n_e>>}
RootFiles == {directory \o <<n_a_wasm>>, directory \o <<n_c_html>>,
              directory \o <<n_secret>>, directory \o <<n_e, n_index_html>>,
              directory \o <<n_u>>}
OutsideFiles == {<<n_secret>>, <<n_passwd>>}
Files == RootFiles \cup OutsideFiles
\* the files the environment rewrites while the server runs
WritableFiles == {directory \o <<n_a_wasm>>, directory \o <<n_secret>>}
\* files the server process may not read: open() raises PermissionError
Unreadable == {directory \o <<n_u>>}

Bytes == {0, 1}
Contents == SeqsUpTo(Bytes, MaxLen)
InitialContent == <<0>>

\* The kernel's resolution of an absolute path: "." stays, ".." climbs.
RECURSIVE OsResolve(_, _)
OsResolve(comps, acc) ==
    IF comps = <<>> THEN acc
    ELSE LET c == Head(comps)
         IN  IF c = Dot \/ c = <<>> THEN OsResolve(Tail(comps), acc)
             ELSE IF c = DotDot
                  THEN OsResolve(Tail(comps),
                                 IF acc = <<>> THEN acc
                                 ELSE SubSeq(acc, 1, Len(acc) - 1))
             ELSE OsResolve(Tail(comps), Append(acc, c))

\* os.path.isdir
isdir(p) == OsResolve(p.comps, <<>>) \in Dirs

\* os.path.isfile (a trailing slash makes the kernel ask for a directory)
isfile(p) == ~p.slash /\ OsResolve(p.comps, <<>>) \in Files

\* open(path, 'rb') succeeds
CanOpen(p) == isfile(p) /\ OsResolve(p.comps, <<>>) \notin Unreadable

(***************************************************************************)
(* Path translation (SimpleHTTPRequestHandler.translate_path).  A request  *)
(* path is the URL path with the query dropped and %xx decoded, split at   *)
(* "/": abs says it began with "/", slash that it ended with one.          *)
(***************************************************************************)
Pth(abs, segs, slash) == [abs |-> abs, segs |-> segs, slash |-> slash]

\* posixpath.normpath's loop over the components
RECURSIVE NormComps(_, _, _)
NormComps(abs, comps, new_comps) ==
    IF comps = <<>> THEN new_comps
    ELSE LET comp == Head(comps)
             rest == Tail(comps)
         IN  IF comp = <<>> \/ comp = Dot
             THEN NormComps(abs, rest, new_comps)
             ELSE IF \/ comp # DotDot
                     \/ (~abs /\ new_comps = <<>>)
                     \/ (new_comps # <<>> /\ new_comps[Len(new_comps)] = DotDot)
                  THEN NormComps(abs, rest, Append(new_comps, comp))
             ELSE IF new_comps # <<>>
                  THEN NormComps(abs, rest,
                                 SubSeq(new_comps, 1, Len(new_comps) - 1))
             ELSE NormComps(abs, rest, new_comps)

SimpleName(word) == word # <<>> /\ word # Dot /\ word # DotDot

\* A translate_path that joins every component, ".." included
translate_path_naive(path) ==
    [comps |-> directory \o path.segs, slash |-> path.slash]

\* translate_path: components that are not simple names are ignored
translate_path(path) ==
    [comps |-> directory \o
               SelectSeq(NormComps(path.abs, path.segs, <<>>), SimpleName),
     slash |-> path.slash]

\* The translated path as text, as guess_type receives it
RECURSIVE JoinPath(_)
JoinPath(comps) ==
    IF comps = <<>> THEN <<>>
    ELSE <<"/">> \o Head(comps) \o JoinPath(Tail(comps))

PathText(p) == JoinPath(p.comps) \o (IF p.slash THEN <<"/">> ELSE <<>>)

(***************************************************************************)
(* Requests.  raw is what rfile.readline(65537) returns: nothing (the      *)
(* client closed), a line longer than 65536 bytes, or a request line of    *)
(* nwords words: method, path and, from three words on, the version as the *)
(* last word.  ims: an If-Modified-Since header not older than the file.   *)
(* hdrs: "toolarge" when parse_headers raises.                             *)
(***************************************************************************)
Req(raw, n, m, v, path, ims, hdrs) ==
    [raw |-> raw, nwords |-> n, method |-> m, version |-> v, path |-> path,
     ims |-> ims, hdrs |-> hdrs]

p_a_wasm == Pth(TRUE, <<n_a_wasm>>, FALSE)
p_nope == Pth(TRUE, <<n_nope>>, FALSE)
p_d_slash == Pth(TRUE, <<n_d>>, TRUE)
p_up_secret == Pth(TRUE, <<DotDot, n_secret>>, FALSE)

ReqPaths ==
    {p_a_wasm, p_nope, p_d_slash, p_up_secret,
     Pth(TRUE, <<n_c_html>>, FALSE),
     Pth(TRUE, <<n_secret>>, FALSE),
     Pth(TRUE, <<n_e, n_index_html>>, FALSE),
     Pth(TRUE, <<n_u>>, FALSE),
     Pth(TRUE, <<n_d>>, FALSE),
     Pth(TRUE, <<n_e>>, TRUE),
     Pth(TRUE, <<>>, TRUE),
     Pth(TRUE, <<n_a_wasm>>, TRUE),
     Pth(TRUE, <<DotDot, DotDot, n_passwd>>, FALSE),
     Pth(TRUE, <<n_d, DotDot, DotDot, n_secret>>, FALSE),
     Pth(FALSE, <<DotDot, n_secret>>, FALSE)}

Requests ==
    {Req("line", 3, "GET", "HTTP/1.1", path, FALSE, "ok") : path \in ReqPaths}
    \cup {Req("line", 3, "HEAD", "HTTP/1.1", path, FALSE, "ok") :
             path \in {p_a_wasm, p_nope, p_d_slash}}
    \cup {Req("line", 2, "GET", "", path, FALSE, "ok") :
             path \in {p_a_wasm, p_nope, p_up_secret}}
    \cup {Req("line", 3, "GET", "HTTP/1.0", p_a_wasm, FALSE, "ok"),
          Req("line", 3, "GET", "HTTP/1.1", p_a_wasm, TRUE, "ok"),
          Req("line", 3, "GET", "HTTP/1.1", p_a_wasm, FALSE, "toolarge"),
          Req("line", 3, "POST", "HTTP/1.1", p_a_wasm, FALSE, "ok"),
          Req("line", 3, "GET", "FOO/1.1", p_a_wasm, FALSE, "ok"),
          Req("line", 3, "GET", "HTTP/2.0", p_a_wasm, FALSE, "ok"),
          Req("line", 2, "POST", "", p_a_wasm, FALSE, "ok"),
          Req("line", 4, "GET", "HTTP/1.1", p_a_wasm, FALSE, "ok"),
          Req("line", 4, "GET", "FOO/1.1", p_a_wasm, FALSE, "ok"),
          Req("line", 1, "GET", "", p_a_wasm, FALSE, "ok"),
          Req("line", 0, "", "", p_a_wasm, FALSE, "ok"),
          Req("toolong", 3, "GET", "HTTP/1.1", p_a_wasm, FALSE, "ok"),
          Req("eof", 0, "", "", p_a_wasm, FALSE, "ok")}

(***************************************************************************)
(* Response headers and bodies.                                            *)
(***************************************************************************)
Hdr(name, value, num) == [name |-> name, value |-> value, num |-> num]
COOP == Hdr("Cross-Origin-Opener-Policy", "same-origin", -1)
COEP == Hdr("Cross-Origin-Embedder-Policy", "require-corp", -1)
CRLF == Hdr("", "", -1)
StatusLine(code) == Hdr("HTTP/1.0", "status", code)
NoBody == [kind |-> "none", data |-> <<>>]

\* BaseHTTPRequestHandler.send_response: status line, Server, Date
send_response(code) ==
    <<StatusLine(code), Hdr("Server", "SimpleHTTP", -1), Hdr("Date", "now", -1)>>

\* The version words parse_request accepts, with their numbers
VersionNumber(v) ==
    CASE v = "HTTP/1.0" -> <<1, 0>>
      [] v = "HTTP/1.1" -> <<1, 1>>
      [] v = "HTTP/2.0" -> <<2, 0>>
      [] OTHER -> <<>>

\* What a handler method leaves when it reaches end_headers(), or returns
\* without a response: the request version, the status, the header lines
\* send_response/send_header were asked to add, the body to write after
\* the headers, and the file opened.  called: end_headers() is called.
Plan(rv, code, hdrs, body, fpath) ==
    [rv |-> rv, called |-> TRUE, status |-> code, hdrs |-> hdrs, body |-> body,
     fpath |-> fpath]

NoResponse(rv) ==
    [rv |-> rv, called |-> FALSE, status |-> 0, hdrs |-> <<>>, body |-> NoBody,
     fpath |-> <<>>]

\* BaseHTTPRequestHandler.send_error (every code used here has a body)
send_error(rv, code, command) ==
    Plan(rv, code,
         send_response(code) \o
             <<Hdr("Connection", "close", -1),
               Hdr("Content-Type", "text/html;charset=utf-8", -1),
               Hdr("Content-Length", "len(body)", -1)>>,
         IF command # "HEAD" THEN [kind |-> "error", data |-> <<>>] ELSE NoBody,
         <<>>)

(***************************************************************************)
(* SimpleHTTPRequestHandler.send_head and what leads to it.                *)
(***************************************************************************)
\* send_head from "ctype = self.guess_type(path)" on, for the file at path
ServeFile(rv, req, path, fsnow, mjs) ==
    LET ctype == guess_type(PathText(path), mjs)
        file == OsResolve(path.comps, <<>>)
    IN  IF path.slash \/ ~CanOpen(path)
        THEN send_error(rv, 404, req.method)
        ELSE IF req.ims
        THEN Plan(rv, 304, send_response(304), NoBody, file)
        ELSE Plan(rv, 200,
                  send_response(200) \o
                      <<Hdr("Content-type", ctype, -1),
                        Hdr("Content-Length", "size", Len(fsnow[file])),
                        Hdr("Last-Modified", "mtime", -1)>>,
                  IF req.method = "GET" THEN [kind |-> "file", data |-> <<>>]
                  ELSE NoBody,
                  file)

\* send_head, with do_GET's copy or do_HEAD's close as the body
send_head(rv, req, fsnow, mjs) ==
    LET path == translate_path(req.path)
        index(name) == [comps |-> path.comps \o <<name>>, slash |-> FALSE]
    IN  IF isdir(path)
        THEN IF ~req.path.slash
             THEN Plan(rv, 301,
                       send_response(301) \o
                           <<Hdr("Location", "path/", -1),
                             Hdr("Content-Length", "0", 0)>>,
                       NoBody, <<>>)
             ELSE IF isfile(index(n_index_html))
             THEN ServeFile(rv, req, index(n_index_html), fsnow, mjs)
             ELSE IF isfile(index(n_index_htm))
             THEN ServeFile(rv, req, index(n_index_htm), fsnow, mjs)
             ELSE Plan(rv, 200,
                       send_response(200) \o
                           <<Hdr("Content-type", "text/html; charset=utf-8", -1),
                             Hdr("Content-Length", "len(listing)", -1)>>,
                       IF req.method = "GET"
                       THEN [kind |-> "listing", data |-> <<>>] ELSE NoBody,
                       <<>>)
        ELSE ServeFile(rv, req, path, fsnow, mjs)

\* BaseHTTPRequestHandler.handle_one_request with parse_request, up to the
\* call of end_headers()
handle_one_request(req, fsnow, mjs) ==
    LET n == req.nwords
        num == VersionNumber(req.version)
        rv == IF n >= 3 THEN req.version ELSE "HTTP/0.9"
    IN  IF req.raw = "toolong" THEN send_error("", 414, "")
        ELSE IF req.raw = "eof" THEN NoResponse("")
        ELSE IF n = 0 THEN NoResponse("HTTP/0.9")
        ELSE IF n >= 3 /\ num = <<>> THEN send_error("HTTP/0.9", 400, "")
        ELSE IF n >= 3 /\ num[1] >= 2 THEN send_error("HTTP/0.9", 505, "")
        ELSE IF ~(2 <= n /\ n <= 3) THEN send_error(rv, 400, "")
        ELSE IF n = 2 /\ req.method # "GET" THEN send_error(rv, 400, "")
        ELSE IF req.hdrs = "toolarge" THEN send_error(rv, 431, req.method)
        ELSE IF req.method \notin {"GET", "HEAD"}
        THEN send_error(rv, 501, req.method)
        ELSE send_head(rv, req, fsnow, mjs)

(***************************************************************************)
(* The header buffer.                                                      *)
(***************************************************************************)
\* BaseHTTPRequestHandler.send_header: nothing is buffered for HTTP/0.9
send_header(rv, buf, hdr) == IF rv # "HTTP/0.9" THEN Append(buf, hdr) ELSE buf

RECURSIVE send_headers(_, _, _)
send_headers(rv, buf, hdrs) ==
    IF hdrs = <<>> THEN buf
    ELSE send_headers(rv, send_header(rv, buf, Head(hdrs)), Tail(hdrs))

Count(s, x) == Cardinality({i \in 1..Len(s) : s[i] = x})

(***************************************************************************)
(* Handler instances.                                                      *)
(***************************************************************************)
NoReq == Req("unread", 0, "", "", Pth(TRUE, <<>>, FALSE), FALSE, "ok")

\* The instance finish_request constructs: nothing carried over
NewHandler ==
    [step |-> "read", req |-> NoReq, rv |-> "", status |-> 0, body |-> NoBody,
     fpath |-> <<>>, buf |-> <<>>, head |-> <<>>, hdr_sent |-> FALSE,
     sent |-> NoBody, body_sent |-> FALSE, touched |-> FALSE,
     aborted |-> FALSE]

Replace(h, g) == (handlers \ {h}) \cup {g}

Running == -1
DefaultPort == 8080
DefaultBind == "127.0.0.1"
NoSock == [state |-> "none", host |-> "", port |-> -1]

(***************************************************************************)
(* The command line.                                                       *)
(***************************************************************************)
Digits == {"0", "1", "2", "3", "4", "5", "6", "7", "8", "9"}
DigitVal(c) ==
    CASE c = "0" -> 0 [] c = "1" -> 1 [] c = "2" -> 2 [] c = "3" -> 3
      [] c = "4" -> 4 [] c = "5" -> 5 [] c = "6" -> 6 [] c = "7" -> 7
      [] c = "8" -> 8 [] c = "9" -> 9

RECURSIVE DecimalValue(_, _)
DecimalValue(s, acc) ==
    IF s = <<>> THEN acc
    ELSE DecimalValue(Tail(s), 10 * acc + DigitVal(Head(s)))

AllDigits(s) == s # <<>> /\ \A i \in 1..Len(s) : s[i] \in Digits

\* int(s) raises ValueError
IntRaises(s) ==
    IF s # <<>> /\ Head(s) \in {"-", "+"} THEN ~AllDigits(Tail(s))
    ELSE ~AllDigits(s)

\* int(s) for a string int() accepts: an optional sign and decimal digits
IntOf(s) ==
    IF Head(s) = "-" THEN 0 - DecimalValue(Tail(s), 0)
    ELSE IF Head(s) = "+" THEN DecimalValue(Tail(s), 0)
    ELSE DecimalValue(s, 0)

ArgvSet ==
    {<<>>,
     <<<<"3", "0", "0", "0">>, <<"0.0.0.0">>>>,
     <<<<"8", "0">>>>,
     <<<<"0">>>>,
     <<<<"a", "b", "c">>>>,
     <<<<"-", "1">>>>,
     <<<<"7", "0", "0", "0", "0">>>>}

\* the ports the kernel hands out for a bind to port 0
EphemeralPorts == {32768, 60999}

(***************************************************************************)
(* The main program, lines 39-49.                                          *)
(***************************************************************************)
\* the interpreter ends the process: the kernel closes the listening socket
Terminate(code) ==
    /\ pc' = "exited"
    /\ exitcode' = code
    /\ sock' = IF sock.state = "listening"
               THEN [sock EXCEPT !.state = "closed"] ELSE sock

\* line 40: port = int(sys.argv[1]) if len(sys.argv) > 1 else 8080
Line40 ==
    /\ pc = "l40"
    /\ IF Len(argv) > 0 /\ IntRaises(argv[1])
       THEN /\ Terminate(1)
            /\ startfail' = TRUE
            /\ port' = port
       ELSE /\ port' = IF Len(argv) > 0 THEN IntOf(argv[1]) ELSE DefaultPort
            /\ pc' = "l41"
            /\ UNCHANGED <<sock, exitcode, startfail>>
    /\ UNCHANGED <<argv, bind, stdout, interrupts, caughtServing,
                   shutdown_request, is_shut_down, pending, accepted, handlers,
                   failed, fs, writes, mjsDefault, gpath, gtype>>

\* line 41 reading the bind address from the first argument
Line41OffByOne ==
    /\ pc = "l41"
    /\ bind' = IF Len(argv) > 1 THEN argv[1][1] ELSE DefaultBind
    /\ pc' = "l43"
    /\ UNCHANGED <<argv, port, sock, stdout, exitcode, startfail, interrupts,
                   caughtServing, shutdown_request, is_shut_down, pending,
                   accepted, handlers, failed, fs, writes, mjsDefault, gpath,
                   gtype>>

\* line 41: bind = sys.argv[2] if len(sys.argv) > 2 else '127.0.0.1'
Line41 ==
    /\ pc = "l41"
    /\ bind' = IF Len(argv) > 1 THEN argv[2][1] ELSE DefaultBind
    /\ pc' = "l43"
    /\ UNCHANGED <<argv, port, sock, stdout, exitcode, startfail, interrupts,
                   caughtServing, shutdown_request, is_shut_down, pending,
                   accepted, handlers, failed, fs, writes, mjsDefault, gpath,
                   gtype>>

\* line 43 with a failed bind swallowed: the program goes on without a socket
Line43Swallow ==
    /\ pc = "l43"
    /\ \E ok \in BOOLEAN :
          IF port \in 0..65535 /\ ok
          THEN /\ \E p \in (IF port = 0 THEN EphemeralPorts ELSE {port}) :
                     sock' = [state |-> "listening", host |-> bind, port |-> p]
               /\ startfail' = startfail
          ELSE /\ sock' = [state |-> "closed", host |-> bind, port |-> port]
               /\ startfail' = TRUE
    /\ pc' = "l44"
    /\ UNCHANGED <<argv, port, bind, stdout, exitcode, interrupts,
                   caughtServing, shutdown_request, is_shut_down, pending,
                   accepted, handlers, failed, fs, writes, mjsDefault, gpath,
                   gtype>>

\* line 43: server = http.server.HTTPServer((bind, port), COOPCOEPHandler).
\* TCPServer.__init__ binds and listens; bind() raises OverflowError for a
\* port outside 0..65535 and OSError when the kernel refuses (address in
\* use, permission denied, address not available); server_bind stores
\* getsockname(), the kernel's choice for port 0.
Line43 ==
    /\ pc = "l43"
    /\ \E ok \in BOOLEAN :
          IF port \in 0..65535 /\ ok
          THEN /\ \E p \in (IF port = 0 THEN EphemeralPorts ELSE {port}) :
                     sock' = [state |-> "listening", host |-> bind, port |-> p]
               /\ pc' = "l44"
               /\ UNCHANGED <<exitcode, startfail>>
          ELSE /\ pc' = "exited"
               /\ exitcode' = 1
               /\ sock' = [state |-> "closed", host |-> bind, port |-> port]
               /\ startfail' = TRUE
    /\ UNCHANGED <<argv, port, bind, stdout, interrupts, caughtServing,
                   shutdown_request, is_shut_down, pending, accepted, handlers,
                   failed, fs, writes, mjsDefault, gpath, gtype>>

\* line 44: print(f'Serving on http://{bind}:{port} with COOP/COEP headers')
Line44 ==
    /\ pc = "l44"
    /\ stdout' = Append(stdout, "Serving on")
    /\ pc' = "l46"
    /\ UNCHANGED <<argv, port, bind, sock, exitcode, startfail, interrupts,
                   caughtServing, shutdown_request, is_shut_down, pending,
                   accepted, handlers, failed, fs, writes, mjsDefault, gpath,
                   gtype>>

\* lines 45-46: inside the try, serve_forever() starts: it clears
\* __is_shut_down and enters its own try/finally and loop
Line46 ==
    /\ pc = "l46"
    /\ is_shut_down' = FALSE
    /\ pc' = "serving"
    /\ UNCHANGED <<argv, port, bind, sock, stdout, exitcode, startfail,
                   interrupts, caughtServing, shutdown_request, pending,
                   accepted, handlers, failed, fs, writes, mjsDefault, gpath,
                   gtype>>

\* line 48: print('\nShutting down.')
Line48 ==
    /\ pc = "l48"
    /\ stdout' = Append(stdout, "Shutting down.")
    /\ pc' = "l49"
    /\ UNCHANGED <<argv, port, bind, sock, exitcode, startfail, interrupts,
                   caughtServing, shutdown_request, is_shut_down, pending,
                   accepted, handlers, failed, fs, writes, mjsDefault, gpath,
                   gtype>>

\* line 49, first half: server.shutdown() sets __shutdown_request
Line49Request ==
    /\ pc = "l49"
    /\ shutdown_request' = TRUE
    /\ pc' = "l49wait"
    /\ UNCHANGED <<argv, port, bind, sock, stdout, exitcode, startfail,
                   interrupts, caughtServing, is_shut_down, pending, accepted,
                   handlers, failed, fs, writes, mjsDefault, gpath, gtype>>

\* line 49, second half: shutdown() waits for __is_shut_down
Line49Wait ==
    /\ pc = "l49wait"
    /\ is_shut_down
    /\ pc' = "end"
    /\ UNCHANGED <<argv, port, bind, sock, stdout, exitcode, startfail,
                   interrupts, caughtServing, shutdown_request, is_shut_down,
                   pending, accepted, handlers, failed, fs, writes, mjsDefault,
                   gpath, gtype>>

\* the script ends after line 49: exit code 0
ExitNormally ==
    /\ pc = "end"
    /\ Terminate(0)
    /\ UNCHANGED <<argv, port, bind, stdout, startfail, interrupts,
                   caughtServing, shutdown_request, is_shut_down, pending,
                   accepted, handlers, failed, fs, writes, mjsDefault, gpath,
                   gtype>>

(***************************************************************************)
(* SIGINT: Python raises KeyboardInterrupt in the main thread.             *)
(***************************************************************************)
\* An except clause that ends the process with status 1
InterruptExit1 ==
    /\ pc # "exited"
    /\ interrupts < MaxInterrupts
    /\ interrupts' = interrupts + 1
    /\ IF pc = "serving"
       THEN /\ handlers' = {}
            /\ shutdown_request' = FALSE
            /\ is_shut_down' = TRUE
            /\ caughtServing' = TRUE
            /\ Terminate(1)
       ELSE /\ Terminate(130)
            /\ UNCHANGED <<handlers, shutdown_request, is_shut_down,
                           caughtServing>>
    /\ UNCHANGED <<argv, port, bind, stdout, startfail, pending, accepted,
                   failed, fs, writes, mjsDefault, gpath, gtype>>

\* Inside serve_forever's loop (in select or in a handler): the bare except
\* of _handle_request_noblock closes the request and re-raises, the finally
\* of serve_forever resets __shutdown_request and sets __is_shut_down, and
\* line 47 catches.  Inside the try but before serve_forever has entered its
\* own try: line 47 catches and no finally has run.  Anywhere else the
\* exception is uncaught and the process dies of it.
Interrupt ==
    /\ pc # "exited"
    /\ interrupts < MaxInterrupts
    /\ interrupts' = interrupts + 1
    /\ IF pc = "serving"
       THEN /\ handlers' = {}
            /\ shutdown_request' = FALSE
            /\ is_shut_down' = TRUE
            /\ caughtServing' = TRUE
            /\ pc' = "l48"
            /\ UNCHANGED <<sock, exitcode>>
       ELSE IF pc = "l46"
       THEN /\ pc' = "l48"
            /\ UNCHANGED <<sock, exitcode, handlers, shutdown_request,
                           is_shut_down, caughtServing>>
       ELSE /\ Terminate(130)
            /\ UNCHANGED <<handlers, shutdown_request, is_shut_down,
                           caughtServing>>
    /\ UNCHANGED <<argv, port, bind, stdout, startfail, pending, accepted,
                   failed, fs, writes, mjsDefault, gpath, gtype>>

(***************************************************************************)
(* The serve loop and the handler, lines 20-36, 46.                        *)
(***************************************************************************)
\* a client connects: the kernel queues the connection
Connect ==
    /\ sock.state = "listening"
    /\ pending < MaxPending
    /\ accepted + pending < MaxConns
    /\ pending' = pending + 1
    /\ UNCHANGED <<mainVars, accepted, handlers, failed, fs, writes,
                   mjsDefault, gpath, gtype>>

\* A serve loop that hands each connection to a thread of its own
AcceptThreaded ==
    /\ pc = "serving"
    /\ ~shutdown_request
    /\ pending > 0
    /\ pending' = pending - 1
    /\ accepted' = accepted + 1
    /\ handlers' = handlers \cup {NewHandler}
    /\ UNCHANGED <<mainVars, failed, fs, writes, mjsDefault, gpath, gtype>>

\* serve_forever's loop: select() reports the socket readable and
\* _handle_request_noblock accepts; process_request runs the handler to its
\* end before the loop goes round again.
Accept ==
    /\ pc = "serving"
    /\ ~shutdown_request
    /\ pending > 0
    /\ handlers = {}
    /\ pending' = pending - 1
    /\ accepted' = accepted + 1
    /\ handlers' = {NewHandler}
    /\ UNCHANGED <<mainVars, failed, fs, writes, mjsDefault, gpath, gtype>>

\* handle_one_request reads a request and runs up to end_headers()
Dispatch(h) ==
    /\ pc = "serving"
    /\ h.step = "read"
    /\ \E req \in Requests :
          LET plan == handle_one_request(req, fs, mjsDefault)
          IN  handlers' = Replace(h,
                  [h EXCEPT !.step = IF plan.called THEN "l25" ELSE "finish",
                            !.req = req,
                            !.rv = plan.rv,
                            !.status = plan.status,
                            !.body = plan.body,
                            !.fpath = plan.fpath,
                            !.buf = send_headers(plan.rv, h.buf, plan.hdrs)])
    /\ UNCHANGED <<mainVars, pending, accepted, failed, fs, writes,
                   mjsDefault, gpath, gtype>>

\* An end_headers that calls super().end_headers() first: the block is
\* flushed before the isolation headers are added
Line25FlushFirst(h) ==
    /\ pc = "serving"
    /\ h.step = "l25"
    /\ handlers' = Replace(h,
           [h EXCEPT !.step = "l26",
                     !.head = IF h.rv # "HTTP/0.9" THEN Append(h.buf, CRLF)
                              ELSE h.head,
                     !.hdr_sent = (h.rv # "HTTP/0.9"),
                     !.buf = send_header(h.rv, <<>>, COOP)])
    /\ UNCHANGED <<mainVars, pending, accepted, failed, fs, writes,
                   mjsDefault, gpath, gtype>>

\* line 25: self.send_header('Cross-Origin-Opener-Policy', 'same-origin')
Line25(h) ==
    /\ pc = "serving"
    /\ h.step = "l25"
    /\ handlers' = Replace(h,
           [h EXCEPT !.step = "l26", !.buf = send_header(h.rv, h.buf, COOP)])
    /\ UNCHANGED <<mainVars, pending, accepted, failed, fs, writes,
                   mjsDefault, gpath, gtype>>

\* line 26: self.send_header('Cross-Origin-Embedder-Policy', 'require-corp')
Line26(h) ==
    /\ pc = "serving"
    /\ h.step = "l26"
    /\ handlers' = Replace(h,
           [h EXCEPT !.step = "l28", !.buf = send_header(h.rv, h.buf, COEP)])
    /\ UNCHANGED <<mainVars, pending, accepted, failed, fs, writes,
                   mjsDefault, gpath, gtype>>

\* line 28: super().end_headers() appends the blank line and flushes the
\* buffer in one write, unless the request version is HTTP/0.9.  The write
\* raises when the client is gone: nothing is delivered.
Line28(h) ==
    /\ pc = "serving"
    /\ h.step = "l28"
    /\ IF h.rv = "HTTP/0.9"
       THEN handlers' = Replace(h, [h EXCEPT !.step = "body"])
       ELSE \E ok \in BOOLEAN :
               handlers' = Replace(h,
                   IF ok
                   THEN [h EXCEPT !.step = "body",
                                  !.head = Append(h.buf, CRLF),
                                  !.hdr_sent = TRUE,
                                  !.buf = <<>>]
                   ELSE [h EXCEPT !.step = "finish", !.aborted = TRUE])
    /\ UNCHANGED <<mainVars, pending, accepted, failed, fs, writes,
                   mjsDefault, gpath, gtype>>

\* A copy that stops one byte short of the file's end
WriteBodyShort(h) ==
    /\ pc = "serving"
    /\ h.step = "body"
    /\ IF h.body.kind = "none"
       THEN handlers' = Replace(h, [h EXCEPT !.step = "finish"])
       ELSE \E ok \in BOOLEAN :
               handlers' = Replace(h,
                   IF ok
                   THEN [h EXCEPT !.step = "finish",
                                  !.body_sent = TRUE,
                                  !.sent = [kind |-> h.body.kind,
                                            data |-> IF h.body.kind = "file"
                                                     THEN SubSeq(fs[h.fpath], 1,
                                                              Len(fs[h.fpath]) - 1)
                                                     ELSE <<>>]]
                   ELSE [h EXCEPT !.step = "finish", !.aborted = TRUE])
    /\ UNCHANGED <<mainVars, pending, accepted, failed, fs, writes,
                   mjsDefault, gpath, gtype>>

\* After end_headers: send_error writes its page, do_GET copies the file
\* (copyfile reads it now) or the listing; a write or a read may raise,
\* which ends the exchange where it is.
WriteBody(h) ==
    /\ pc = "serving"
    /\ h.step = "body"
    /\ IF h.body.kind = "none"
       THEN handlers' = Replace(h, [h EXCEPT !.step = "finish"])
       ELSE \E ok \in BOOLEAN :
               handlers' = Replace(h,
                   IF ok
                   THEN [h EXCEPT !.step = "finish",
                                  !.body_sent = TRUE,
                                  !.sent = [kind |-> h.body.kind,
                                            data |-> IF h.body.kind = "file"
                                                     THEN fs[h.fpath]
                                                     ELSE <<>>]]
                   ELSE [h EXCEPT !.step = "finish", !.aborted = TRUE])
    /\ UNCHANGED <<mainVars, pending, accepted, failed, fs, writes,
                   mjsDefault, gpath, gtype>>

\* what the client sees of a finished exchange is a failure
Failure(h) == h.aborted \/ h.status >= 400

\* A serve loop that lets a handler's exception end the process
CloseRaise(h) ==
    /\ pc = "serving"
    /\ h.step = "finish"
    /\ handlers' = handlers \ {h}
    /\ failed' = (failed \/ Failure(h))
    /\ IF h.aborted
       THEN /\ Terminate(1)
            /\ UNCHANGED <<argv, port, bind, stdout, startfail, interrupts,
                           caughtServing, shutdown_request, is_shut_down>>
       ELSE UNCHANGED mainVars
    /\ UNCHANGED <<pending, accepted, fs, writes, mjsDefault, gpath, gtype>>

\* The handler returns or raised an Exception: _handle_request_noblock
\* reports it (handle_error) and shutdown_request closes the connection;
\* the loop goes on.
Close(h) ==
    /\ pc = "serving"
    /\ h.step = "finish"
    /\ handlers' = handlers \ {h}
    /\ failed' = (failed \/ Failure(h))
    /\ UNCHANGED <<mainVars, pending, accepted, fs, writes, mjsDefault,
                   gpath, gtype>>

\* the environment rewrites a file under the document root
WriteFile ==
    /\ writes < MaxWrites
    /\ \E f \in WritableFiles : \E c \in Contents \ {fs[f]} :
          /\ fs' = [fs EXCEPT ![f] = c]
          /\ handlers' = {IF h.fpath = f /\ h.step # "read"
                          THEN [h EXCEPT !.touched = TRUE] ELSE h :
                          h \in handlers}
    /\ writes' = writes + 1
    /\ UNCHANGED <<mainVars, pending, accepted, failed, mjsDefault, gpath,
                   gtype>>

(***************************************************************************)
(* The specifications.                                                     *)
(***************************************************************************)
Init ==
    /\ argv \in ArgvSet
    /\ pc = "l40"
    /\ port = DefaultPort
    /\ bind = ""
    /\ sock = NoSock
    /\ stdout = <<>>
    /\ exitcode = Running
    /\ startfail = FALSE
    /\ interrupts = 0
    /\ caughtServing = FALSE
    /\ shutdown_request = FALSE
    /\ is_shut_down = FALSE
    /\ pending = 0
    /\ accepted = 0
    /\ handlers = {}
    /\ failed = FALSE
    /\ fs = [f \in Files |-> InitialContent]
    /\ writes = 0
    /\ mjsDefault = "application/javascript"
    /\ gpath = <<>>
    /\ gtype = NoType

MainStep ==
    \/ Line40
    \/ Line41
    \/ Line43
    \/ Line44
    \/ Line46
    \/ Line48
    \/ Line49Request
    \/ Line49Wait
    \/ ExitNormally

ServeStep ==
    \/ Accept
    \/ \E h \in handlers : Dispatch(h)
    \/ \E h \in handlers : Line25(h)
    \/ \E h \in handlers : Line26(h)
    \/ \E h \in handlers : Line28(h)
    \/ \E h \in handlers : WriteBody(h)
    \/ \E h \in handlers : Close(h)

Next ==
    \/ MainStep
    \/ ServeStep
    \/ Interrupt
    \/ Connect
    \/ WriteFile

Spec == Init /\ [][Next]_vars

\* The interpreter runs the main thread: a step of the program that can be
\* taken is taken.
FairSpec == Spec /\ WF_vars(MainStep)

\* guess_type applied to one path
Guess ==
    /\ pc = "guess"
    /\ gtype = NoType
    /\ gtype' = guess_type(gpath, mjsDefault)
    /\ UNCHANGED <<mainVars, pending, accepted, handlers, failed, fs, writes,
                   mjsDefault, gpath>>

GuessInit ==
    /\ argv = <<>>
    /\ pc = "guess"
    /\ port = DefaultPort
    /\ bind = ""
    /\ sock = NoSock
    /\ stdout = <<>>
    /\ exitcode = Running
    /\ startfail = FALSE
    /\ interrupts = 0
    /\ caughtServing = FALSE
    /\ shutdown_request = FALSE
    /\ is_shut_down = FALSE
    /\ pending = 0
    /\ accepted = 0
    /\ handlers = {}
    /\ failed = FALSE
    /\ fs = [f \in Files |-> InitialContent]
    /\ writes = 0
    /\ mjsDefault \in MjsDefaults
    /\ gpath \in GuessInputs
    /\ gtype = NoType

GuessNext == Guess

GuessSpec == GuessInit /\ [][GuessNext]_vars

(***************************************************************************)
(* Properties.                                                             *)
(***************************************************************************)
\* the request reaches send_head: a request line GET/HEAD path [version]
\* that parse_request accepts
ReachesSendHead(req) ==
    /\ req.raw = "line"
    /\ req.nwords \in {2, 3}
    /\ req.nwords = 3 => req.version \in {"HTTP/1.0", "HTTP/1.1"}
    /\ req.method \in {"GET", "HEAD"}
    /\ req.hdrs = "ok"

\* the number a header of the flushed block carries, -1 when absent
HeaderNum(head, name) ==
    IF \E i \in 1..Len(head) : head[i].name = name
    THEN head[CHOOSE i \in 1..Len(head) : head[i].name = name].num
    ELSE -1

\* C1: every response the server sends, whatever its outcome, carries
\* Cross-Origin-Opener-Policy: same-origin and Cross-Origin-Embedder-Policy:
\* require-corp exactly once each in its header block.
C1_IsolationHeadersOnEveryResponse ==
    \A h \in handlers :
        (h.hdr_sent \/ h.body_sent) =>
            /\ Count(h.head, COOP) = 1
            /\ Count(h.head, COEP) = 1

\* the last two chunks of p are "." and ext
LastTwo(p, ext) == Len(p) >= 2 /\ p[Len(p) - 1] = "." /\ p[Len(p)] = ext

\* the last component of p has a character other than "." before its last dot
HasStem(p) ==
    \E i \in 1..Len(p) :
        /\ p[i] \notin {".", "/"}
        /\ \E j \in (i + 1)..Len(p) : p[j] = "."
        /\ \A j \in i..Len(p) : p[j] # "/"

C2_Reference(p, mjs) ==
    IF LastTwo(p, "wasm") THEN "application/wasm"
    ELSE IF LastTwo(p, "mjs") THEN "application/javascript"
    ELSE DefaultGuessType(p, mjs)

\* C2 as stated: guess_type(path) is 'application/wasm' for a path ending in
\* '.wasm', else 'application/javascript' for one ending in '.mjs', else the
\* default lookup's result, and so 'text/html' for every path ending in
\* '.html'.
C2_Original ==
    gtype # NoType =>
        /\ gtype = C2_Reference(gpath, mjsDefault)
        /\ LastTwo(gpath, "html") => gtype = "text/html"

\* C2 as amended: the same, with 'text/html' for a path ending in '.html'
\* whose file name has a character other than '.' before the extension (a
\* name that is only '.html' has no extension for the default lookup).
C2_GuessTypeIsReference ==
    gtype # NoType =>
        /\ gtype = C2_Reference(gpath, mjsDefault)
        /\ (LastTwo(gpath, "html") /\ HasStem(gpath)) => gtype = "text/html"

C2_Witness ==
    /\ gtype = "application/wasm"
    /\ gpath = <<"zz", ".", "wasm">>

\* the request path, followed from the document root as the kernel follows
\* a path, leaves the document root
Escapes(path) ==
    ~HasPrefix(OsResolve(directory \o path.segs, <<>>), directory)

WellFormed(req) == ReachesSendHead(req) /\ req.nwords = 3

C5_StartupFailureIsFatal ==
    startfail =>
        /\ pc = "exited"
        /\ exitcode \notin {0, Running}
        /\ stdout = <<>>
        /\ sock.state # "listening"
        /\ pending = 0
        /\ accepted = 0
        /\ handlers = {}

C5_Witness ==
    /\ startfail
    /\ sock.state = "closed"
    /\ exitcode = 1

\* C6: an interrupt that arrives while the server is serving ends with the
\* shutdown message printed, the listening socket closed and exit code 0
\* (when no second interrupt cuts the shutdown short); the shutdown always
\* completes; no connection is accepted after the interrupt.
C6_InterruptShutsDown ==
    /\ []((pc = "exited" /\ caughtServing /\ interrupts = 1) =>
              /\ exitcode = 0
              /\ stdout = <<"Serving on", "Shutting down.">>
              /\ sock.state = "closed")
    /\ [][caughtServing => (accepted' = accepted /\ handlers' = {})]_vars
    /\ [](caughtServing =>
              <>(pc = "exited" /\ (exitcode = 0 \/ interrupts > 1)))

C6_Witness ==
    /\ pc = "exited"
    /\ caughtServing
    /\ interrupts = 1
    /\ exitcode = 0
    /\ accepted > 0

\* the characters of "3000"
a_3000 == <<"3", "0", "0", "0">>

\* C7 as stated: the socket is bound to the address and port the arguments
\* give: 127.0.0.1:8080 without arguments, 127.0.0.1 and the port given
\* with one, the port and the address given with two; it never changes.
C7_Original ==
    sock.state = "listening" =>
        /\ sock.host = (IF Len(argv) > 1 THEN argv[2][1] ELSE "127.0.0.1")
        /\ sock.port = (IF Len(argv) > 0 THEN DecimalValue(argv[1], 0)
                        ELSE 8080)

\* C7 as amended: the same for a port argument from 1 to 65535; the port
\* argument 0 binds to a port the kernel chooses.  The variables port and
\* bind and the socket's address never change once set.
C7_BindConfiguration ==
    /\ [](sock.state = "listening" =>
              /\ argv = <<>> => sock.host = "127.0.0.1" /\ sock.port = 8080
              /\ argv = <<a_3000, <<"0.0.0.0">>>> =>
                     sock.host = "0.0.0.0" /\ sock.port = 3000
              /\ argv = <<<<"8", "0">>>> =>
                     sock.host = "127.0.0.1" /\ sock.port = 80
              /\ Len(argv) = 1 => sock.host = "127.0.0.1"
              /\ (Len(argv) > 0 /\ DecimalValue(argv[1], 0) # 0) =>
                     sock.port = DecimalValue(argv[1], 0)
              /\ (Len(argv) > 0 /\ DecimalValue(argv[1], 0) = 0) =>
                     sock.port \in EphemeralPorts)
    /\ [][/\ pc \notin {"l40", "l41"} => (port' = port /\ bind' = bind)
          /\ sock.state = "listening" =>
                 (sock'.host = sock.host /\ sock'.port = sock.port)
          /\ argv' = argv]_vars

C7_Witness ==
    /\ sock.state = "listening"
    /\ argv = <<a_3000, <<"0.0.0.0">>>>
    /\ sock.host = "0.0.0.0"
    /\ sock.port = 3000

\* the URL path of a file under the document root
PathOf(f) == Pth(TRUE, SubSeq(f, Len(directory) + 1, Len(f)), FALSE)

\* an unconditional HTTP/1.x GET of file f
PlainGet(req, f) ==
    /\ WellFormed(req)
    /\ req.method = "GET"
    /\ ~req.ims
    /\ req.path = PathOf(f)

\* C8: after bytes are written to a readable regular file under the
\* document root, a GET of the file's path that the write does not overlap
\* and that completes is answered 200 with exactly those bytes as its body
\* and their number as Content-Length.
C8_RoundTrip ==
    \A h \in handlers : \A f \in RootFiles \ Unreadable :
        (/\ h.step = "finish"
         /\ PlainGet(h.req, f)
         /\ ~h.aborted
         /\ ~h.touched) =>
            /\ h.status = 200
            /\ h.head[1] = StatusLine(200)
            /\ h.body_sent
            /\ h.sent = [kind |-> "file", data |-> fs[f]]
            /\ HeaderNum(h.head, "Content-Length") = Len(fs[f])

C8_Witness ==
    /\ writes > 0
    /\ \E h \in handlers : \E f \in RootFiles :
           /\ h.step = "finish"
           /\ PlainGet(h.req, f)
           /\ ~h.touched
           /\ h.body_sent
           /\ h.sent.data = fs[f]
           /\ fs[f] # InitialContent
           /\ fs[f] # <<>>

\* C9: a header block is flushed only with both isolation headers in it,
\* appended last and before the blank line; nothing is added to the buffer
\* after the flush, and a flushed block never changes.
C9_FlushAfterIsolationHeaders ==
    /\ [](\A h \in handlers :
              h.hdr_sent =>
                  /\ Len(h.head) >= 3
                  /\ h.head[Len(h.head) - 2] = COOP
                  /\ h.head[Len(h.head) - 1] = COEP
                  /\ h.head[Len(h.head)] = CRLF
                  /\ Count(h.head, COOP) = 1
                  /\ Count(h.head, COEP) = 1
                  /\ h.buf = <<>>
                  /\ h.step \in {"body", "finish"})
    /\ [][\A h \in handlers : \A g \in handlers' :
              (h.hdr_sent /\ g.req = h.req) =>
                  (g.hdr_sent /\ g.head = h.head /\ g.buf = <<>>)]_vars

C9_Witness ==
    \E h \in handlers :
        /\ h.hdr_sent
        /\ h.status = 404
        /\ h.step = "finish"
        /\ h.body_sent

\* C10: at most one connection is being handled at any moment; a connection
\* is accepted only when no handler is alive, and its handler starts from a
\* fresh instance that holds nothing of an earlier request.
C10_OneRequestAtATime ==
    /\ [](Cardinality(handlers) <= 1)
    /\ [][accepted' # accepted =>
              /\ handlers = {}
              /\ handlers' = {NewHandler}
              /\ accepted' = accepted + 1]_vars

C10_Witness ==
    /\ accepted = 2
    /\ failed
    /\ \E h \in handlers : h.step = "body" /\ h.status = 200

====
